---- MODULE Spec2Model ----
(***************************************************************************)
(* State-machine model of the pose-driven spear hunting game               *)
(* (src/src/App.jsx).  Lengths are in millimetres, times in milliseconds,  *)
(* velocities in millimetres per second, landmark coordinates and random   *)
(* draws in thousandths.  React state is the committed state between two   *)
(* handlers; every handler (frame callback, timer callback, effect, click) *)
(* is one action and ends with the commit of the state updates it queued.  *)
(***************************************************************************)
EXTENDS Integers, Sequences, FiniteSets, TLC

\* ---------------------------------------------------------------- bounds
\* An explored run has a budget: how many spears are thrown, animals spawned,
\* restarts and pauses made before the model stops throwing / spawning /
\* clicking, whether the estimator ever delivers an incomplete pose, and the
\* random draws the spawner makes.
MaxSpears == 2
MaxAnimals == 3
MaxRestarts == 1
MaxPauses == 1

\* values of Math.random() * totalWeight used by the spawner (thousandths)
RandomDraws == { 250, 600, 800 }

\* a volley at one animal; a herd met with one spear; a restarted session;
\* a paused and restarted session; a paused session with a respawn
Budgets ==
  { [spears |-> MaxSpears, animals |-> 1, restarts |-> 0, pauses |-> 0, short |-> TRUE,
     draws |-> RandomDraws],
    [spears |-> 1, animals |-> MaxAnimals, restarts |-> 0, pauses |-> 0, short |-> FALSE,
     draws |-> RandomDraws],
    [spears |-> 1, animals |-> MaxAnimals - 1, restarts |-> MaxRestarts, pauses |-> 0,
     short |-> FALSE, draws |-> RandomDraws],
    [spears |-> 1, animals |-> 1, restarts |-> MaxRestarts, pauses |-> MaxPauses,
     short |-> FALSE, draws |-> RandomDraws],
    [spears |-> 1, animals |-> MaxAnimals - 1, restarts |-> 0, pauses |-> MaxPauses,
     short |-> FALSE, draws |-> RandomDraws] }

\* frame intervals the renderer delivers (the clock delta of useFrame):
\* a fine one, offered while a spear is in flight, and a coarse one
FineDeltas == { 100 }
CoarseDeltas == { 5000 }

\* nose landmarks delivered by the pose estimator (x, y, z in thousandths)
HeadPoints == { [x |-> 500, y |-> 690, z |-> -500] }

\* values of Math.random() - 0.5 used for the spawn x (millimetres)
SpawnXs == { 0 }

\* ------------------------------------------------------ program constants
SPEAR_STATES == [IDLE |-> "Idle", GRIPPED |-> "Gripped", THROWING |-> "Throwing", THROWN |-> "Thrown"]

ANIMAL_TYPES ==
  [ elephant |-> [name |-> "elephant", baseSpeed |-> 400, speedIncrease |-> 600,
                  health |-> 3, damage |-> 50, score |-> 100, spawnWeight |-> 500],
    cheetah  |-> [name |-> "cheetah", baseSpeed |-> 1000, speedIncrease |-> 500,
                  health |-> 2, damage |-> 25, score |-> 75, spawnWeight |-> 125],
    antelope |-> [name |-> "antelope", baseSpeed |-> 600, speedIncrease |-> 0,
                  health |-> 1, damage |-> 10, score |-> 50, spawnWeight |-> 250] ]

\* Object.values(ANIMAL_TYPES): declaration order
animalTypes == << "elephant", "cheetah", "antelope" >>

FIRE_COOLDOWN == 1000
HitRadius == 3000
PlayerZ == 8000
spawnY == -4000
spawnZ == -25000
Gravity == 9800
BackstopZ == -29900
FloorY == -3250
HitDelay == 500
RegripDelay == 500
MissRemoveDelay == 1000
HitMessageDelay == 1500
FlashMessageDelay == 2000
RespawnDelay == 1000
InitialSpawnDelay == 1000
RemoveSpawnDelay == 100

\* null (a missing id, a missing position)
NoId == -1
NoPosition == << >>

VARIABLES
  isReady,          \* usePoseTracking: the video element has loaded
  spearState,       \* App state
  headPosition,     \* App state: aim point, NoPosition before the first pose
  thrownSpears,     \* App state list merged with each ThrownSpear's own state
  animals,          \* App state list merged with each Animal's own state
  score,            \* App state
  hitMessage,       \* App state: "", "hit" or "miss" (the random text is abstracted)
  flashMessage,     \* App state
  isPaused,         \* App state
  sinceLastFire,    \* Date.now() - lastFireTime, saturated at FIRE_COOLDOWN
  spearIdCounter,   \* ref
  animalIdCounter,  \* ref
  timers,           \* pending setTimeout callbacks, in creation order
  frameDelta,       \* time elapsed since the last rendered frame (0: none pending)
  frameOrder,       \* useFrame subscribers in subscription (mount) order
  events,           \* history: the events emitted by the last step
  respawnDebt,      \* history: removals (kill, arrival) minus replacement spawns
  used,             \* history: spears thrown, animals spawned, restarts, pauses so far
  budget,           \* the budget of this run
  handPosition,     \* App state of the fist variant: where the gripped spear is held
  playerHealth,     \* App state of the fist variant
  isGameOver,       \* App state of the fist variant
  screenFlash       \* App state of the fist variant

vars == << isReady, spearState, headPosition, thrownSpears, animals, score,
           hitMessage, flashMessage, isPaused, sinceLastFire, spearIdCounter,
           animalIdCounter, timers, frameDelta, frameOrder, events, respawnDebt, used,
           budget, handPosition, playerHealth, isGameOver, screenFlash >>

\* the state that only the fist variant has
fistVars == << handPosition, playerHealth, isGameOver, screenFlash >>

\* ---------------------------------------------------------------- helpers
Min(a, b) == IF a < b THEN a ELSE b

Remove(seq, i) == SubSeq(seq, 1, i - 1) \o SubSeq(seq, i + 1, Len(seq))

IdxOf(seq, id) == CHOOSE i \in DOMAIN seq : seq[i].id = id

HasId(seq, id) == \E i \in DOMAIN seq : seq[i].id = id

\* prev.filter(e => e.id !== id) for every id of ids
FilterIds(seq, ids) == SelectSeq(seq, LAMBDA e : e.id \notin ids)

Event(ev, a, s, v) == [ev |-> ev, a |-> a, s |-> s, v |-> v]

\* a setTimeout record; cp is the isPaused value captured by the closure,
\* stale marks a callback whose component was unmounted by a restart
Timer(kind, rem, a, s, v) ==
  [kind |-> kind, rem |-> rem, a |-> a, s |-> s, v |-> v, cp |-> isPaused, stale |-> FALSE]

\* JavaScript truthiness of an id argument: null and 0 are falsy
Truthy(id) == id # NoId /\ id # 0

\* --------------------------------------------------------- pure functions
\* getHeadPosition: null unless 33 landmarks are present
getHeadPosition(lm) == IF lm.kind = "valid" THEN lm.head ELSE NoPosition

\* detectHandRaised: false unless 33 landmarks are present
detectHandRaised(lm) == lm.kind = "valid" /\ lm.raised

\* the aim point computed from the nose landmark (camera rotation 0)
AimPoint(h) == << (500 - h.x) * 25, ((1000 - h.y) * 5) \div 2 - 4000, 5000 + h.z * (-3) >>

\* velocity of a throw at power ratio 1.0
ThrowVelocity ==
  LET powerRatio == 1
      baseVelocity == 1500 + powerRatio * 5000
  IN << 0, 800 + powerRatio * 1500, -baseVelocity * (1 + powerRatio * 5) >>

\* the test that ends the selection loop; Selected_strict is the variant
\* that goes on when the remainder is exactly 0
Selected_strict(r2) == r2 < 0
Selected(r2) == r2 <= 0

\* weighted selection: walk the types subtracting weights until r <= 0
RECURSIVE SelectWalk(_, _)
SelectWalk(r, k) ==
  IF k > Len(animalTypes) THEN animalTypes[1]
  ELSE LET r2 == r - ANIMAL_TYPES[animalTypes[k]].spawnWeight
       IN IF Selected(r2) THEN animalTypes[k] ELSE SelectWalk(r2, k + 1)

SelectType(r) == SelectWalk(r, 1)

\* currentSpeed_slowing is the variant in which hits slow the animal down
currentSpeed_slowing(a) ==
  LET t == ANIMAL_TYPES[a.type]
      hitsTaken == t.health - a.health
  IN t.baseSpeed - hitsTaken * t.speedIncrease

currentSpeed(a) ==
  LET t == ANIMAL_TYPES[a.type]
      hitsTaken == t.health - a.health
  IN t.baseSpeed + hitsTaken * t.speedIncrease

DistSq(p, q) ==
  (p[1] - q[1]) * (p[1] - q[1]) + (p[2] - q[2]) * (p[2] - q[2]) + (p[3] - q[3]) * (p[3] - q[3])

deathAnimationDuration(type) ==
  IF type = "elephant" THEN 3000 ELSE IF type = "cheetah" THEN 4000 ELSE 800

\* ThrownSpear returns null (and its mesh ref is null) when out of bounds
OutOfBounds(p) == p[3] < -35000 \/ p[1] < -15000 \/ p[1] > 15000

AtBackstop(p) ==
  p[3] <= BackstopZ /\ p[1] >= -5000 /\ p[1] <= 5000 /\ p[2] >= -5000 /\ p[2] <= 3000

AtGround(p) == p[2] <= FloorY

Range(seq) == { seq[i] : i \in DOMAIN seq }

\* each hit reduces health by 1; damage_heal is the variant that adds 1
damage_heal == 0 - 1
damage == 1

\* stuckSpears.includes(spear.id); AlreadyStuck_off is the variant without the test
AlreadyStuck_off(a, spear) == FALSE
AlreadyStuck(a, spear) == spear.id \in Range(a.stuckSpears)

\* newPosition[2] >= 8; ReachedPlayer_off is the variant without the arrival test
ReachedPlayer_off(newPosition) == FALSE
ReachedPlayer(newPosition) == newPosition[3] >= PlayerZ

\* the guard of onMiss in the three contact branches of the spear;
\* EmitsMiss_air is the variant that reports a miss only beyond the field
EmitsMiss_air(s, contact) == contact = "out" /\ ~s.hasTriggeredMiss /\ ~s.hasHitAnimal
EmitsMiss(s, contact) == contact # "none" /\ ~s.hasTriggeredMiss /\ ~s.hasHitAnimal

\* now - lastFireTime >= FIRE_COOLDOWN; CooledDown_off is the variant without cooldown
CooledDown_off(elapsed) == TRUE
CooledDown(elapsed) == elapsed >= FIRE_COOLDOWN

\* the early return of the spear's useFrame: no mesh, not active or paused;
\* SpearSkipsFrame_unpaused is the variant that ignores the pause
SpearSkipsFrame_unpaused(s, paused) == OutOfBounds(s.position) \/ ~s.isActive
SpearSkipsFrame(s, paused) == OutOfBounds(s.position) \/ ~s.isActive \/ paused

\* setThrownSpears([]) of a restart; RestartSpears_keep is the variant that
\* leaves the list alone
RestartSpears_keep(spears) == spears
RestartSpears(spears) == << >>

\* setScore(prev => prev + scorePoints); AddScore_sub is the variant that
\* takes the points away
AddScore_sub(prev, scorePoints) == prev - scorePoints
AddScore(prev, scorePoints) == prev + scorePoints

\* the state set by the timer started with a throw; RegripState_thrown and
\* RegripState_stay are the variants that set Thrown and Throwing
RegripState_thrown == SPEAR_STATES.THROWN
RegripState_stay == SPEAR_STATES.THROWING
RegripState == SPEAR_STATES.GRIPPED

\* the if / else-if chain of the spear's contact tests: backstop, then
\* ground, then out of bounds; SpearContact_groundFirst is the variant that
\* tests the ground first
SpearContact_groundFirst(moved) ==
  IF AtGround(moved) THEN "ground"
  ELSE IF AtBackstop(moved) THEN "backstop"
  ELSE IF OutOfBounds(moved) THEN "out" ELSE "none"
SpearContact(moved) ==
  IF AtBackstop(moved) THEN "backstop"
  ELSE IF AtGround(moved) THEN "ground"
  ELSE IF OutOfBounds(moved) THEN "out" ELSE "none"

\* the first argument of onReachPlayer; ArrivalDamage_score is the variant
\* that passes the archetype's score
ArrivalDamage_score(t) == t.score
ArrivalDamage(t) == t.damage

\* position: [...headPosition] of a new spear; SpearStart_centre is the
\* variant that starts every spear at the centre fallback
SpearStart_centre(aim) == << 0, -2000, 5000 >>
SpearStart(aim) == aim

\* id: spearIdCounter.current++; NextSpearId_fixed is the variant that gives
\* every spear the id 0
NextSpearId_fixed(counter) == 0
NextSpearId(counter) == counter

\* ------------------------------------------------------------------ Init
Start(budgets) ==
  /\ isReady = FALSE
  /\ spearState = SPEAR_STATES.IDLE
  /\ headPosition = NoPosition
  /\ thrownSpears = << >>
  /\ animals = << >>
  /\ score = 0
  /\ hitMessage = ""
  /\ flashMessage = ""
  /\ isPaused = FALSE
  /\ sinceLastFire = FIRE_COOLDOWN
  /\ spearIdCounter = 0
  /\ animalIdCounter = 0
  /\ timers = << [kind |-> "initialSpawn", rem |-> InitialSpawnDelay, a |-> NoId, s |-> NoId,
                  v |-> 0, cp |-> FALSE, stale |-> FALSE] >>
  /\ frameDelta = 0
  /\ frameOrder = << >>
  /\ events = << >>
  /\ respawnDebt = 0
  /\ used = [spears |-> 0, animals |-> 0, restarts |-> 0, pauses |-> 0]
  /\ budget \in budgets
  /\ handPosition = NoPosition
  /\ playerHealth = 100
  /\ isGameOver = FALSE
  /\ screenFlash = FALSE

Init == Start(Budgets)

\* --------------------------------------------------------- frame callbacks
\* The accumulator of one rendered frame: an, sp are the component states
\* with the updates queued so far, da the ids of the spears whose shared
\* data object still says isActive, rmA / rmS the ids filtered out of the
\* App lists at commit, tm the timers started, sc / hm / fm the App state.
FrameStart ==
  [ an |-> animals, sp |-> thrownSpears,
    da |-> { thrownSpears[k].id : k \in { j \in DOMAIN thrownSpears : thrownSpears[j].isActive } },
    rmA |-> {}, rmS |-> {}, tm |-> << >>, sc |-> score, hm |-> hitMessage,
    fm |-> flashMessage, ev |-> << >>, debt |-> respawnDebt ]

\* Animal useFrame, the forEach over thrownSpears from spear k on
RECURSIVE HitLoop(_, _, _, _)
HitLoop(acc, i, newPosition, k) ==
  IF k > Len(thrownSpears) THEN acc
  ELSE
    LET spear == thrownSpears[k]
        a == animals[i]
        t == ANIMAL_TYPES[a.type]
    IN IF spear.id \notin acc.da \/ AlreadyStuck(a, spear)
       THEN HitLoop(IF /\ spear.id \in acc.da
                       /\ DistSq(newPosition, spear.position) < HitRadius * HitRadius
                    THEN [acc EXCEPT !.ev = @ \o << Event("stuck", a.id, spear.id, 0) >>]
                    ELSE acc,
                    i, newPosition, k + 1)
       ELSE IF DistSq(newPosition, spear.position) < HitRadius * HitRadius
       THEN
         LET newHealth == a.health - damage
             lethal == newHealth <= 0
             firstKill == lethal /\ acc.an[i].isAlive
             acc1 ==
               [acc EXCEPT
                  !.an[i].health = newHealth,
                  !.an[i].stuckSpears = Append(@, spear.id),
                  !.an[i].isAlive = IF lethal THEN FALSE ELSE @,
                  !.an[i].isDying = IF lethal THEN TRUE ELSE @,
                  !.an[i].credited = IF lethal THEN @ + t.score ELSE @,
                  !.da = @ \ {spear.id},
                  !.sp[k].hasHitAnimal = TRUE,
                  !.hm = "hit",
                  !.tm = @ \o << Timer("clearHitMessage", HitMessageDelay, NoId, NoId, 0),
                                 Timer("delayedHit", HitDelay, a.id, spear.id, t.score) >>
                           \o (IF lethal
                               THEN << Timer("deathAnimation", deathAnimationDuration(a.type),
                                             a.id, NoId, 0) >>
                               ELSE << >>),
                  !.sc = IF lethal THEN AddScore(@, t.score) ELSE @,
                  !.rmS = IF lethal /\ Truthy(spear.id) THEN @ \cup {spear.id} ELSE @,
                  !.ev = @ \o << Event("hit", a.id, spear.id, newHealth) >>
                           \o (IF lethal
                               THEN << Event("kill", a.id, spear.id, 0),
                                       Event("score", a.id, spear.id, t.score) >>
                               ELSE << >>),
                  !.debt = IF firstKill THEN @ + 1 ELSE @ ]
         IN HitLoop(acc1, i, newPosition, k + 1)
       ELSE HitLoop(acc, i, newPosition, k + 1)

\* Animal useFrame
AnimalFrame(acc, i, delta) ==
  LET a == animals[i]
      t == ANIMAL_TYPES[a.type]
  IN IF ~a.isAlive THEN acc
     ELSE IF isPaused THEN [acc EXCEPT !.ev = @ \o << Event("frozen", a.id, NoId, 0) >>]
     ELSE
       LET newPosition == << a.position[1], a.position[2],
                             a.position[3] + (currentSpeed(a) * delta) \div 1000 >>
       IN IF ReachedPlayer(newPosition)
          THEN \* onReachPlayer(damage, id) = handleAnimalReachPlayer; setIsAlive(false)
            [acc EXCEPT
               !.fm = IF a.type = "cheetah" THEN "EATEN!" ELSE "TRAMPLED!",
               !.tm = @ \o << Timer("clearFlashMessage", FlashMessageDelay, NoId, NoId, 0),
                              Timer("arrivalRespawn", RespawnDelay, NoId, NoId, 0) >>,
               !.rmA = @ \cup {a.id},
               !.an[i].isAlive = FALSE,
               !.ev = @ \o << Event("arrival", a.id, NoId, ArrivalDamage(t)) >>
                        \o (IF \E k \in DOMAIN thrownSpears :
                                  /\ thrownSpears[k].id \in acc.da
                                  /\ DistSq(newPosition, thrownSpears[k].position)
                                       < HitRadius * HitRadius
                            THEN << Event("arrivalInRange", a.id, NoId, 0) >>
                            ELSE << >>),
               !.debt = @ + 1 ]
          ELSE [HitLoop(acc, i, newPosition, 1) EXCEPT !.an[i].position = newPosition]

\* the velocity of a spear after delta ms of gravity
SpearNewVelocity(s, delta) ==
  << s.velocity[1], s.velocity[2] - (Gravity * delta) \div 1000, s.velocity[3] >>

\* the position of a spear after delta ms at its new velocity, before the
\* contact tests
SpearMoved(s, delta) ==
  LET newVelocity == SpearNewVelocity(s, delta)
  IN << s.position[1] + (newVelocity[1] * delta) \div 1000,
        s.position[2] + (newVelocity[2] * delta) \div 1000,
        s.position[3] + (newVelocity[3] * delta) \div 1000 >>

\* ThrownSpear useFrame
SpearFrame(acc, k, delta) ==
  LET s == thrownSpears[k]
  IN IF SpearSkipsFrame(s, isPaused)
     THEN IF SpearSkipsFrame_unpaused(s, isPaused) THEN acc
          ELSE [acc EXCEPT !.ev = @ \o << Event("frozen", NoId, s.id, 0) >>]
     ELSE
       LET newVelocity == SpearNewVelocity(s, delta)
           moved == SpearMoved(s, delta)
           contact == SpearContact(moved)
           newPosition == IF contact = "backstop" THEN << moved[1], moved[2], BackstopZ >>
                          ELSE IF contact = "ground" THEN << moved[1], FloorY, moved[3] >>
                          ELSE moved
           miss == EmitsMiss(s, contact)
       IN [acc EXCEPT
             !.sp[k].velocity = newVelocity,
             !.sp[k].position = newPosition,
             !.sp[k].isActive = IF contact \in {"backstop", "ground"} THEN FALSE ELSE @,
             !.sp[k].hasTriggeredMiss = IF miss THEN TRUE ELSE @,
             !.sp[k].misses = IF miss THEN @ + 1 ELSE @,
             \* onMiss = handleSpearMiss
             !.hm = IF miss THEN "miss" ELSE @,
             !.tm = IF miss
                    THEN @ \o << Timer("clearHitMessage", HitMessageDelay, NoId, NoId, 0),
                                 Timer("missRemove", MissRemoveDelay, NoId, s.id, 0) >>
                    ELSE @,
             !.ev = IF miss THEN @ \o << Event("miss", NoId, s.id, 0) >> ELSE @ ]

\* all useFrame subscribers, in subscription order
RECURSIVE RunFrame(_, _, _)
RunFrame(acc, n, delta) ==
  IF n > Len(frameOrder) THEN acc
  ELSE LET c == frameOrder[n]
       IN RunFrame(IF c[1] = "animal"
                   THEN AnimalFrame(acc, IdxOf(animals, c[2]), delta)
                   ELSE SpearFrame(acc, IdxOf(thrownSpears, c[2]), delta),
                   n + 1, delta)

\* ------------------------------------------------------------------ timers
NoDue == \A i \in DOMAIN timers : timers[i].rem > 0

\* the pending callback with the earliest deadline, the oldest among equals
DueIdx ==
  CHOOSE i \in DOMAIN timers :
    /\ timers[i].rem <= 0
    /\ \A j \in DOMAIN timers :
         timers[j].rem <= 0 =>
           \/ timers[i].rem < timers[j].rem
           \/ (timers[i].rem = timers[j].rem /\ i <= j)

Due(kind) == ~NoDue /\ timers[DueIdx].kind = kind

SpearInFlight ==
  \E k \in DOMAIN thrownSpears :
    thrownSpears[k].isActive /\ ~OutOfBounds(thrownSpears[k].position)

RegripPending == \E i \in DOMAIN timers : timers[i].kind = "regrip"

\* frames come quickly while a spear flies or the arm is still throwing
FrameDeltas ==
  IF (SpearInFlight \/ RegripPending) /\ ~isPaused
  THEN FineDeltas \cup CoarseDeltas
  ELSE CoarseDeltas

\* real time passes: d milliseconds until the renderer's next frame
Advance ==
  /\ frameDelta = 0
  /\ NoDue
  /\ \E d \in FrameDeltas :
       /\ timers' = [i \in DOMAIN timers |-> [timers[i] EXCEPT !.rem = @ - d]]
       /\ sinceLastFire' = Min(sinceLastFire + d, FIRE_COOLDOWN)
       /\ frameDelta' = d
  /\ events' = << >>
  /\ UNCHANGED << fistVars, budget, isReady, spearState, headPosition, thrownSpears, animals, score, hitMessage,
                  flashMessage, isPaused, spearIdCounter, animalIdCounter, frameOrder,
                  respawnDebt, used >>

\* the renderer's frame: every useFrame callback, then the commit
Frame ==
  /\ frameDelta > 0
  /\ NoDue
  /\ LET acc == RunFrame(FrameStart, 1, frameDelta)
     IN /\ animals' = FilterIds(acc.an, acc.rmA)
        /\ thrownSpears' = FilterIds(acc.sp, acc.rmS)
        /\ frameOrder' = SelectSeq(frameOrder,
                           LAMBDA c : IF c[1] = "animal" THEN c[2] \notin acc.rmA
                                      ELSE c[2] \notin acc.rmS)
        /\ timers' = timers \o acc.tm
        /\ score' = acc.sc
        /\ hitMessage' = acc.hm
        /\ flashMessage' = acc.fm
        /\ events' = acc.ev
        /\ respawnDebt' = acc.debt
  /\ frameDelta' = 0
  /\ UNCHANGED << fistVars, budget, isReady, spearState, headPosition, isPaused, sinceLastFire, spearIdCounter,
                  animalIdCounter, used >>

\* spawnNewAnimal(deadAnimalId) run from a timer whose closure captured
\* isPaused = cp; base is the animal list it updates, rest the other timers,
\* replaces tells whether the spawn answers a removal
spawnNewAnimal(deadAnimalId, cp, base, rest, replaces) ==
  IF Truthy(deadAnimalId)
  THEN /\ animals' = FilterIds(base, {deadAnimalId})
       /\ frameOrder' = SelectSeq(frameOrder, LAMBDA c : c # << "animal", deadAnimalId >>)
       /\ timers' = Append(rest, [Timer("removedRespawn", RemoveSpawnDelay, NoId, NoId, 0)
                                    EXCEPT !.cp = cp])
       /\ events' = << Event("removed", deadAnimalId, NoId, 0) >>
       /\ UNCHANGED << animalIdCounter, respawnDebt, used >>
  ELSE IF cp
  THEN /\ animals' = base
       /\ timers' = rest
       /\ events' = << >>
       /\ UNCHANGED << animalIdCounter, frameOrder, respawnDebt, used >>
  ELSE /\ used.animals < budget.animals
       /\ used' = [used EXCEPT !.animals = @ + 1]
       /\ \E r \in budget.draws, spawnX \in SpawnXs :
            LET selectedType == SelectType(r)
                newAnimal == [ id |-> animalIdCounter, type |-> selectedType,
                               position |-> << spawnX, spawnY, spawnZ >>,
                               health |-> ANIMAL_TYPES[selectedType].health,
                               isAlive |-> TRUE, isDying |-> FALSE,
                               stuckSpears |-> << >>, credited |-> 0 ]
            IN /\ animals' = Append(base, newAnimal)
               /\ frameOrder' = Append(frameOrder, << "animal", newAnimal.id >>)
               /\ events' = << Event("spawn", newAnimal.id, NoId, r) >>
       /\ animalIdCounter' = animalIdCounter + 1
       /\ timers' = rest
       /\ respawnDebt' = IF replaces THEN respawnDebt - 1 ELSE respawnDebt

\* the first spawn, one second after the session starts or resumes
TimerInitialSpawn ==
  /\ Due("initialSpawn")
  /\ spawnNewAnimal(NoId, timers[DueIdx].cp, animals, Remove(timers, DueIdx), FALSE)
  /\ UNCHANGED << fistVars, budget, isReady, spearState, headPosition, thrownSpears, score, hitMessage,
                  flashMessage, isPaused, sinceLastFire, spearIdCounter, frameDelta >>

\* the respawn one second after an arrival
TimerArrivalRespawn ==
  /\ Due("arrivalRespawn")
  /\ spawnNewAnimal(NoId, timers[DueIdx].cp, animals, Remove(timers, DueIdx), TRUE)
  /\ UNCHANGED << fistVars, budget, isReady, spearState, headPosition, thrownSpears, score, hitMessage,
                  flashMessage, isPaused, sinceLastFire, spearIdCounter, frameDelta >>

\* the recursive spawnNewAnimal() 100 ms after a dead animal was removed
TimerRemovedRespawn ==
  /\ Due("removedRespawn")
  /\ spawnNewAnimal(NoId, timers[DueIdx].cp, animals, Remove(timers, DueIdx), TRUE)
  /\ UNCHANGED << fistVars, budget, isReady, spearState, headPosition, thrownSpears, score, hitMessage,
                  flashMessage, isPaused, sinceLastFire, spearIdCounter, frameDelta >>

\* end of the death animation: setIsDying(false), onDeathAnimationComplete(id)
TimerDeathAnimation ==
  /\ Due("deathAnimation")
  /\ LET tm == timers[DueIdx]
         base == IF ~tm.stale /\ HasId(animals, tm.a)
                 THEN [animals EXCEPT ![IdxOf(animals, tm.a)].isDying = FALSE]
                 ELSE animals
     IN spawnNewAnimal(tm.a, tm.cp, base, Remove(timers, DueIdx), TRUE)
  /\ UNCHANGED << fistVars, budget, isReady, spearState, headPosition, thrownSpears, score, hitMessage,
                  flashMessage, isPaused, sinceLastFire, spearIdCounter, frameDelta >>

\* handleAnimalHit(scorePoints, spearId, animalId)
TimerDelayedHit ==
  /\ Due("delayedHit")
  /\ LET tm == timers[DueIdx]
     IN /\ score' = AddScore(score, tm.v)
        /\ thrownSpears' = IF Truthy(tm.s) THEN FilterIds(thrownSpears, {tm.s}) ELSE thrownSpears
        /\ frameOrder' = IF Truthy(tm.s)
                         THEN SelectSeq(frameOrder, LAMBDA c : c # << "spear", tm.s >>)
                         ELSE frameOrder
        /\ animals' = IF ~tm.stale /\ HasId(animals, tm.a)
                      THEN [animals EXCEPT ![IdxOf(animals, tm.a)].credited = @ + tm.v]
                      ELSE animals
        /\ events' = << Event("score", tm.a, tm.s, tm.v) >>
  /\ timers' = Remove(timers, DueIdx)
  /\ UNCHANGED << fistVars, budget, isReady, spearState, headPosition, hitMessage, flashMessage, isPaused,
                  sinceLastFire, spearIdCounter, animalIdCounter, frameDelta, respawnDebt, used >>

\* setHitMessage('') 1.5 s after a hit or miss message
TimerClearHitMessage ==
  /\ Due("clearHitMessage")
  /\ hitMessage' = ""
  /\ timers' = Remove(timers, DueIdx)
  /\ events' = << >>
  /\ UNCHANGED << fistVars, budget, isReady, spearState, headPosition, thrownSpears, animals, score, flashMessage,
                  isPaused, sinceLastFire, spearIdCounter, animalIdCounter, frameDelta,
                  frameOrder, respawnDebt, used >>

\* setFlashMessage('') 2 s after an arrival
TimerClearFlashMessage ==
  /\ Due("clearFlashMessage")
  /\ flashMessage' = ""
  /\ timers' = Remove(timers, DueIdx)
  /\ events' = << >>
  /\ UNCHANGED << fistVars, budget, isReady, spearState, headPosition, thrownSpears, animals, score, hitMessage,
                  isPaused, sinceLastFire, spearIdCounter, animalIdCounter, frameDelta,
                  frameOrder, respawnDebt, used >>

\* handleSpearMiss: the missed spear is removed one second later
TimerMissRemove ==
  /\ Due("missRemove")
  /\ LET tm == timers[DueIdx]
     IN /\ thrownSpears' = FilterIds(thrownSpears, {tm.s})
        /\ frameOrder' = SelectSeq(frameOrder, LAMBDA c : c # << "spear", tm.s >>)
  /\ timers' = Remove(timers, DueIdx)
  /\ events' = << >>
  /\ UNCHANGED << fistVars, budget, isReady, spearState, headPosition, animals, score, hitMessage, flashMessage,
                  isPaused, sinceLastFire, spearIdCounter, animalIdCounter, frameDelta,
                  respawnDebt, used >>

\* setSpearState(GRIPPED) half a second after a throw
TimerRegrip ==
  /\ Due("regrip")
  /\ spearState' = RegripState
  /\ timers' = Remove(timers, DueIdx)
  /\ events' = << >>
  /\ UNCHANGED << fistVars, budget, isReady, headPosition, thrownSpears, animals, score, hitMessage, flashMessage,
                  isPaused, sinceLastFire, spearIdCounter, animalIdCounter, frameDelta,
                  frameOrder, respawnDebt, used >>

\* ------------------------------------------------------- input and controls
\* poseLandmarks as delivered by onResults: null, fewer than 33 landmarks,
\* or a full pose reduced to the nose landmark and the raised-hand test
Landmarks ==
  { [kind |-> "null"], [kind |-> "short"] }
    \cup { [kind |-> "valid", head |-> h, raised |-> r] : h \in HeadPoints, r \in BOOLEAN }

\* the video element fired loadeddata
LoadedData ==
  /\ ~isReady
  /\ isReady' = TRUE
  /\ events' = << >>
  /\ UNCHANGED << fistVars, budget, spearState, headPosition, thrownSpears, animals, score, hitMessage,
                  flashMessage, isPaused, sinceLastFire, spearIdCounter, animalIdCounter, timers,
                  frameDelta, frameOrder, respawnDebt, used >>

\* the fire signal: hand raised, Gripped, an aim point
FireSignal(poseLandmarks) ==
  /\ detectHandRaised(poseLandmarks)
  /\ spearState = SPEAR_STATES.GRIPPED
  /\ headPosition # NoPosition

\* whether the pose effect throws: the fire signal, cooled down
WouldFire(poseLandmarks) == FireSignal(poseLandmarks) /\ CooledDown(sinceLastFire)

\* the pose effect of App run with null landmarks (no pose in the image):
\* the body is skipped
PoseEffectSkipped(poseLandmarks) ==
  /\ poseLandmarks.kind = "null"
  /\ budget.short
  /\ events' = << Event("nopose", NoId, NoId, 0) >>
  /\ UNCHANGED << fistVars, budget, isReady, spearState, headPosition, thrownSpears, animals, score,
                  hitMessage, flashMessage, isPaused, sinceLastFire, spearIdCounter,
                  animalIdCounter, timers, frameDelta, frameOrder, respawnDebt, used >>

\* the pose effect of App, run with the landmarks of the current render
PoseEffect(poseLandmarks) ==
  /\ poseLandmarks.kind # "null" /\ isReady /\ ~isPaused
  /\ poseLandmarks.kind = "short" => budget.short
  /\ LET headPos == getHeadPosition(poseLandmarks)
         fire == WouldFire(poseLandmarks)
         newSpear == [ id |-> NextSpearId(spearIdCounter), position |-> SpearStart(headPosition),
                       velocity |-> ThrowVelocity, isActive |-> TRUE,
                       hasTriggeredMiss |-> FALSE, hasHitAnimal |-> FALSE, misses |-> 0 ]
     IN /\ fire => used.spears < budget.spears
        /\ used' = IF fire THEN [used EXCEPT !.spears = @ + 1] ELSE used
        /\ headPosition' = IF headPos # NoPosition THEN AimPoint(headPos) ELSE << 0, -2000, 5000 >>
        /\ spearState' =
             IF fire THEN SPEAR_STATES.THROWING
             ELSE IF headPos # NoPosition /\ spearState = SPEAR_STATES.IDLE
                  THEN SPEAR_STATES.GRIPPED
             ELSE IF headPos = NoPosition /\ spearState = SPEAR_STATES.GRIPPED
                  THEN SPEAR_STATES.IDLE
             ELSE spearState
        /\ thrownSpears' = IF fire THEN Append(thrownSpears, newSpear) ELSE thrownSpears
        /\ frameOrder' = IF fire THEN Append(frameOrder, << "spear", newSpear.id >>)
                         ELSE frameOrder
        /\ spearIdCounter' = IF fire THEN spearIdCounter + 1 ELSE spearIdCounter
        /\ sinceLastFire' = IF fire THEN 0 ELSE sinceLastFire
        /\ timers' = IF fire THEN Append(timers, Timer("regrip", RegripDelay, NoId, NoId, 0))
                     ELSE timers
        /\ events' = IF fire
                     THEN << Event("fire", NoId, newSpear.id,
                                   IF detectHandRaised(poseLandmarks) THEN 1 ELSE 0) >>
                     ELSE IF headPos = NoPosition
                     THEN << Event("nohead", NoId, NoId, 0) >>
                     ELSE IF FireSignal(poseLandmarks)
                     THEN << Event("cooling", NoId, NoId, sinceLastFire) >>
                     ELSE << >>
  /\ UNCHANGED << fistVars, budget, isReady, animals, score, hitMessage, flashMessage, isPaused, animalIdCounter,
                  frameDelta, respawnDebt >>

\* the initial-spawn effect of App, re-run because isPaused changed to p:
\* its cleanup clears the timer of the previous run
InitialSpawnEffect(tms, p) ==
  LET cleared == SelectSeq(tms, LAMBDA t : t.kind # "initialSpawn")
  IN IF ~p
     THEN Append(cleared, [kind |-> "initialSpawn", rem |-> InitialSpawnDelay, a |-> NoId,
                           s |-> NoId, v |-> 0, cp |-> FALSE, stale |-> FALSE])
     ELSE cleared

handleTogglePause ==
  /\ ~isPaused => used.pauses < budget.pauses
  /\ used' = IF ~isPaused THEN [used EXCEPT !.pauses = @ + 1] ELSE used
  /\ isPaused' = ~isPaused
  /\ timers' = InitialSpawnEffect(timers, ~isPaused)
  /\ events' = << >>
  /\ UNCHANGED << fistVars, budget, isReady, spearState, headPosition, thrownSpears, animals, score, hitMessage,
                  flashMessage, sinceLastFire, spearIdCounter, animalIdCounter, frameDelta,
                  frameOrder, respawnDebt >>

handleRestart ==
  /\ used.restarts < budget.restarts
  /\ used' = [used EXCEPT !.restarts = @ + 1]
  /\ score' = 0
  /\ animals' = << >>
  /\ thrownSpears' = RestartSpears(thrownSpears)
  /\ isPaused' = FALSE
  /\ hitMessage' = ""
  /\ flashMessage' = ""
  /\ spearState' = SPEAR_STATES.IDLE
  /\ spearIdCounter' = 0
  /\ animalIdCounter' = 0
  /\ frameOrder' = << >>
  /\ LET old == [i \in DOMAIN timers |-> [timers[i] EXCEPT !.stale = TRUE]]
     IN timers' = IF isPaused THEN InitialSpawnEffect(old, FALSE) ELSE old
  /\ events' = << Event("restart", NoId, NoId, score) >>
  /\ UNCHANGED << fistVars, budget, isReady, headPosition, sinceLastFire, frameDelta, respawnDebt >>

Next ==
  \/ LoadedData
  \/ \E lm \in Landmarks : PoseEffect(lm)
  \/ \E lm \in Landmarks : PoseEffectSkipped(lm)
  \/ Advance
  \/ Frame
  \/ TimerInitialSpawn
  \/ TimerArrivalRespawn
  \/ TimerRemovedRespawn
  \/ TimerDeathAnimation
  \/ TimerDelayedHit
  \/ TimerClearHitMessage
  \/ TimerClearFlashMessage
  \/ TimerMissRemove
  \/ TimerRegrip
  \/ handleTogglePause
  \/ handleRestart

Spec == Init /\ [][Next]_vars

\* ------------------------------------------------- spear flight on its own
\* One spear in flight, observed from an arbitrary point of its flight to
\* its end.  x is the aim x (the throw has no x velocity), the z velocity
\* is that of the throw, the y velocity that of the throw after some time
\* of gravity; the aim y covers the camera rotations; the spear may have
\* hit an animal on its way.
FlightXs == { 0, 10000 }
FlightYs == { -3200, -3000, -1000, 2000, 5000 }
FlightZs == { -20000, -24000, -28000, -32000 }
FlightVys == { 340, -2600, -7500 }

FlightSpears ==
  { [ id |-> 0, position |-> << x, y, z >>,
      velocity |-> << ThrowVelocity[1], vy, ThrowVelocity[3] >>, isActive |-> TRUE,
      hasTriggeredMiss |-> FALSE, hasHitAnimal |-> hit, misses |-> 0 ] :
      x \in FlightXs, y \in FlightYs, z \in FlightZs, vy \in FlightVys, hit \in BOOLEAN }

ContactInit ==
  /\ isReady = TRUE
  /\ spearState = SPEAR_STATES.GRIPPED
  /\ headPosition \in { AimPoint(h) : h \in HeadPoints }
  /\ thrownSpears \in { << s >> : s \in { f \in FlightSpears : SpearContact(f.position) = "none" } }
  /\ animals = << >>
  /\ score = 0
  /\ hitMessage = ""
  /\ flashMessage = ""
  /\ isPaused = FALSE
  /\ sinceLastFire = FIRE_COOLDOWN
  /\ spearIdCounter = 1
  /\ animalIdCounter = 0
  /\ timers = << >>
  /\ frameDelta = 0
  /\ frameOrder = << << "spear", 0 >> >>
  /\ events = << >>
  /\ respawnDebt = 0
  /\ used = [spears |-> 1, animals |-> 0, restarts |-> 0, pauses |-> 0]
  /\ budget \in { b \in Budgets : b.spears = 1 /\ b.animals = MaxAnimals }
  /\ handPosition = NoPosition
  /\ playerHealth = 100
  /\ isGameOver = FALSE
  /\ screenFlash = FALSE

ContactNext ==
  \/ Advance
  \/ Frame
  \/ TimerClearHitMessage
  \/ TimerMissRemove

ContactSpec == ContactInit /\ [][ContactNext]_vars

\* ------------------------------------------------- the spawner on its own
\* The first spawn of a session for every value of Math.random() * totalWeight
\* (thousandths), the bounds 0 and totalWeight included.
totalWeight ==
  ANIMAL_TYPES.elephant.spawnWeight + ANIMAL_TYPES.cheetah.spawnWeight
    + ANIMAL_TYPES.antelope.spawnWeight

AllDraws == 0 .. totalWeight

SpawnInit ==
  Start({ [spears |-> 0, animals |-> 1, restarts |-> 0, pauses |-> 0, short |-> FALSE,
           draws |-> AllDraws] })

SpawnNext ==
  \/ Advance
  \/ TimerInitialSpawn
  \/ Frame

SpawnSpec == SpawnInit /\ [][SpawnNext]_vars

\* ------------------------------------------------ callbacks on their own
\* A session of two throws in which the renderer's next frame may also come
\* at the moment the earliest pending callback is due, so that callbacks
\* started at different times fire at different times.
MinRem == CHOOSE d \in { timers[i].rem : i \in DOMAIN timers } :
            \A i \in DOMAIN timers : d <= timers[i].rem

AdvanceDue ==
  /\ frameDelta = 0
  /\ NoDue
  /\ timers # << >>
  /\ timers' = [i \in DOMAIN timers |-> [timers[i] EXCEPT !.rem = @ - MinRem]]
  /\ sinceLastFire' = Min(sinceLastFire + MinRem, FIRE_COOLDOWN)
  /\ frameDelta' = MinRem
  /\ events' = << >>
  /\ UNCHANGED << fistVars, budget, isReady, spearState, headPosition, thrownSpears, animals, score, hitMessage,
                  flashMessage, isPaused, spearIdCounter, animalIdCounter, frameOrder,
                  respawnDebt, used >>

CallbackInit ==
  Start({ [spears |-> MaxSpears, animals |-> 1, restarts |-> 0, pauses |-> 0, short |-> FALSE,
           draws |-> RandomDraws] })

CallbackNext ==
  \/ LoadedData
  \/ \E lm \in Landmarks : PoseEffect(lm)
  \/ Advance
  \/ AdvanceDue
  \/ Frame
  \/ TimerInitialSpawn
  \/ TimerDelayedHit
  \/ TimerClearHitMessage
  \/ TimerMissRemove
  \/ TimerRegrip

CallbackSpec == CallbackInit /\ [][CallbackNext]_vars

\* ------------------------------------------------- a restarted session
\* Two throws and one restart: ids given before the restart are given again
\* after it while callbacks of the old session are still pending.
ReuseInit ==
  Start({ [spears |-> MaxSpears, animals |-> 1, restarts |-> MaxRestarts, pauses |-> 0,
           short |-> FALSE, draws |-> RandomDraws] })

ReuseNext ==
  \/ LoadedData
  \/ \E lm \in Landmarks : PoseEffect(lm)
  \/ Advance
  \/ Frame
  \/ TimerInitialSpawn
  \/ TimerDelayedHit
  \/ TimerClearHitMessage
  \/ TimerMissRemove
  \/ TimerRegrip
  \/ handleRestart

ReuseSpec == ReuseInit /\ [][ReuseNext]_vars

\* =========================================================== fist variant
\* src/unnamed/part_000: the spear is gripped with a fist and thrown with an
\* open palm, animals arrive on a spawn interval and damage the player.
\* Animal's frame callback, the hit loop, handleAnimalHit, handleHitMessage
\* and handleSpearMiss are line for line those of the pose variant, so
\* HitLoop, TimerDelayedHit, TimerClearHitMessage, TimerMissRemove, Advance
\* and LoadedData are shared.
FistSpawnWeight == [elephant |-> 2000, cheetah |-> 3000, antelope |-> 6000]

FistSpawnY == 0
FistFloorY == 750
SpawnInterval == 8000
ScreenFlashDelay == 200
IdleDelay == 500
FullHealth == 100

\* values of Math.random() * totalWeight, one per archetype (thousandths)
FistDraws == { 1000, 4000, 9000 }

\* animals spawned in a run that lasts until the arrivals end the game
FistMaxAnimals == 9

\* the budgets of a run of the fist variant: a herd of cheetahs and
\* antelopes left alone until the game is over, a hunt of one spear, and a
\* herd of cheetahs met with one spear and one pause
FistBudgets ==
  { [spears |-> 0, animals |-> FistMaxAnimals, restarts |-> MaxRestarts, pauses |-> 0,
     short |-> FALSE, draws |-> { 4000, 9000 }],
    [spears |-> 1, animals |-> MaxAnimals - 1, restarts |-> 0, pauses |-> MaxPauses,
     short |-> FALSE, draws |-> FistDraws],
    [spears |-> 1, animals |-> FistMaxAnimals, restarts |-> 0, pauses |-> MaxPauses,
     short |-> FALSE, draws |-> { 4000 }] }

\* values of powerLevel at the moment of a throw
PowerLevels == { 0, 100 }

\* middle-finger MCP landmarks delivered by the hand estimator
HandCentres == { [x |-> 500, y |-> 400, z |-> 0] }

\* hand landmarks, with the verdicts of detectFist and detectOpenPalm
Hands ==
  { [fist |-> TRUE, palm |-> FALSE, centre |-> c] : c \in HandCentres }
    \cup { [fist |-> FALSE, palm |-> TRUE, centre |-> c] : c \in HandCentres }

detectFist(handLandmarks) == handLandmarks.fist

detectOpenPalm(handLandmarks) == handLandmarks.palm

\* the 3D position computed from the hand centre (camera rotation 0)
HandPoint(c) == << (500 - c.x) * 25, ((1000 - c.y) * 5) \div 2, 5000 + c.z * (-3) >>

\* velocity of a throw at powerLevel p
FistVelocity(p) ==
  LET baseVelocity == 2000 + p * 80
  IN << 0, 1000 + p * 20, (0 - baseVelocity * (100 + p * 8)) \div 100 >>

RECURSIVE FistSelectWalk(_, _)
FistSelectWalk(r, k) ==
  IF k > Len(animalTypes) THEN animalTypes[1]
  ELSE LET r2 == r - FistSpawnWeight[animalTypes[k]]
       IN IF Selected(r2) THEN animalTypes[k] ELSE FistSelectWalk(r2, k + 1)

Max(a, b) == IF a > b THEN a ELSE b

\* Math.max(0, prev - damage); NewPlayerHealth_raw is the variant without
\* the clamp
NewPlayerHealth_raw(prev, dmg) == prev - dmg
NewPlayerHealth(prev, dmg) == Max(0, prev - dmg)

\* the guard of the gesture effect; GestureGuard_over is the variant that
\* goes on after game over
GestureGuard_over(paused, over) == ~paused
GestureGuard(paused, over) == ~paused /\ ~over

\* the guard of handleTogglePause; PauseGuard_over is the variant that
\* toggles in every state
PauseGuard_over(over) == TRUE
PauseGuard(over) == ~over

FistAtBackstop(p) ==
  p[3] <= BackstopZ /\ p[1] >= -5000 /\ p[1] <= 5000 /\ p[2] >= -1000 /\ p[2] <= 7000

FistAtGround(p) == p[2] <= FistFloorY

FistSpearContact(moved) ==
  IF FistAtBackstop(moved) THEN "backstop"
  ELSE IF FistAtGround(moved) THEN "ground"
  ELSE IF OutOfBounds(moved) THEN "out" ELSE "none"

\* the animal spawning effect, run with the values ph, p, over of its
\* dependencies: its cleanup clears the interval of the previous run
SpawnEffect(tms, ph, p, over) ==
  LET cleared == SelectSeq(tms, LAMBDA t : t.kind # "spawnInterval")
  IN IF p \/ over \/ ph <= 0 THEN cleared
     ELSE Append(cleared, [kind |-> "spawnInterval", rem |-> SpawnInterval, a |-> NoId,
                           s |-> NoId, v |-> 0, cp |-> FALSE, stale |-> FALSE])

FistInit ==
  /\ isReady = FALSE
  /\ spearState = SPEAR_STATES.IDLE
  /\ headPosition = NoPosition
  /\ handPosition = NoPosition
  /\ thrownSpears = << >>
  /\ animals = << >>
  /\ playerHealth = FullHealth
  /\ score = 0
  /\ screenFlash = FALSE
  /\ hitMessage = ""
  /\ flashMessage = ""
  /\ isPaused = FALSE
  /\ isGameOver = FALSE
  /\ sinceLastFire = FIRE_COOLDOWN
  /\ spearIdCounter = 0
  /\ animalIdCounter = 0
  /\ timers = SpawnEffect(<< >>, FullHealth, FALSE, FALSE)
  /\ frameDelta = 0
  /\ frameOrder = << >>
  /\ events = << >>
  /\ respawnDebt = 0
  /\ used = [spears |-> 0, animals |-> 0, restarts |-> 0, pauses |-> 0]
  /\ budget \in FistBudgets

\* the accumulator of one rendered frame: FrameStart with the player's
\* health ph, the game-over flag go and the screen flash sf; the events
\* "health" and "restart" carry the health before the step in their s field
FistFrameStart ==
  [ an |-> animals, sp |-> thrownSpears,
    da |-> { thrownSpears[k].id : k \in { j \in DOMAIN thrownSpears : thrownSpears[j].isActive } },
    rmA |-> {}, rmS |-> {}, tm |-> << >>, sc |-> score, hm |-> hitMessage,
    fm |-> flashMessage, ev |-> << >>, debt |-> respawnDebt,
    ph |-> playerHealth, go |-> isGameOver, sf |-> screenFlash ]

\* Animal useFrame of the fist variant
FistAnimalFrame(acc, i, delta) ==
  LET a == animals[i]
      t == ANIMAL_TYPES[a.type]
  IN IF ~a.isAlive \/ isPaused THEN acc
     ELSE
       LET newPosition == << a.position[1], a.position[2],
                             a.position[3] + (currentSpeed(a) * delta) \div 1000 >>
       IN IF ReachedPlayer(newPosition)
          THEN \* onReachPlayer(damage) = handleAnimalReachPlayer; setIsAlive(false)
            LET newHealth == NewPlayerHealth(acc.ph, t.damage)
            IN [acc EXCEPT
                  !.ph = newHealth,
                  !.go = IF newHealth <= 0 THEN TRUE ELSE @,
                  !.sf = TRUE,
                  !.tm = @ \o << Timer("clearScreenFlash", ScreenFlashDelay, NoId, NoId, 0) >>,
                  !.an[i].isAlive = FALSE,
                  !.ev = @ \o << Event("arrival", a.id, NoId, t.damage),
                                 Event("health", NoId, acc.ph, newHealth) >> ]
          ELSE [HitLoop(acc, i, newPosition, 1) EXCEPT !.an[i].position = newPosition]

\* ThrownSpear useFrame of the fist variant
FistSpearFrame(acc, k, delta) ==
  LET s == thrownSpears[k]
  IN IF SpearSkipsFrame(s, isPaused) THEN acc
     ELSE
       LET newVelocity == SpearNewVelocity(s, delta)
           moved == SpearMoved(s, delta)
           contact == FistSpearContact(moved)
           newPosition == IF contact = "backstop" THEN << moved[1], moved[2], BackstopZ >>
                          ELSE IF contact = "ground" THEN << moved[1], FistFloorY, moved[3] >>
                          ELSE moved
           miss == EmitsMiss(s, contact)
       IN [acc EXCEPT
             !.sp[k].velocity = newVelocity,
             !.sp[k].position = newPosition,
             !.sp[k].isActive = IF contact \in {"backstop", "ground"} THEN FALSE ELSE @,
             !.sp[k].hasTriggeredMiss = IF miss THEN TRUE ELSE @,
             !.sp[k].misses = IF miss THEN @ + 1 ELSE @,
             !.hm = IF miss THEN "miss" ELSE @,
             !.tm = IF miss
                    THEN @ \o << Timer("clearHitMessage", HitMessageDelay, NoId, NoId, 0),
                                 Timer("missRemove", MissRemoveDelay, NoId, s.id, 0) >>
                    ELSE @,
             !.ev = IF miss THEN @ \o << Event("miss", NoId, s.id, 0) >> ELSE @ ]

RECURSIVE FistRunFrame(_, _, _)
FistRunFrame(acc, n, delta) ==
  IF n > Len(frameOrder) THEN acc
  ELSE LET c == frameOrder[n]
       IN FistRunFrame(IF c[1] = "animal"
                       THEN FistAnimalFrame(acc, IdxOf(animals, c[2]), delta)
                       ELSE FistSpearFrame(acc, IdxOf(thrownSpears, c[2]), delta),
                       n + 1, delta)

\* the renderer's frame: every useFrame callback, the commit, and the
\* spawning effect when playerHealth or isGameOver changed
FistFrame ==
  /\ frameDelta > 0
  /\ NoDue
  /\ LET acc == FistRunFrame(FistFrameStart, 1, frameDelta)
         started == timers \o acc.tm
     IN /\ animals' = acc.an
        /\ thrownSpears' = FilterIds(acc.sp, acc.rmS)
        /\ frameOrder' = SelectSeq(frameOrder,
                           LAMBDA c : c[1] = "animal" \/ c[2] \notin acc.rmS)
        /\ timers' = IF acc.ph # playerHealth \/ acc.go # isGameOver
                     THEN SpawnEffect(started, acc.ph, isPaused, acc.go)
                     ELSE started
        /\ score' = acc.sc
        /\ hitMessage' = acc.hm
        /\ playerHealth' = acc.ph
        /\ isGameOver' = acc.go
        /\ screenFlash' = acc.sf
        /\ events' = acc.ev
  /\ frameDelta' = 0
  /\ UNCHANGED << budget, isReady, spearState, headPosition, handPosition, flashMessage,
                  isPaused, sinceLastFire, spearIdCounter, animalIdCounter, respawnDebt, used >>

\* the callback of the spawn interval
FistTimerSpawn ==
  /\ Due("spawnInterval")
  /\ LET tm == timers[DueIdx]
         again == Append(Remove(timers, DueIdx), [tm EXCEPT !.rem = @ + SpawnInterval])
     IN IF playerHealth <= 0 \/ isPaused \/ isGameOver
        THEN /\ timers' = again
             /\ events' = << >>
             /\ UNCHANGED << animals, animalIdCounter, frameOrder, used >>
        ELSE /\ used.animals < budget.animals
             /\ used' = [used EXCEPT !.animals = @ + 1]
             /\ \E r \in budget.draws, spawnX \in SpawnXs :
                  LET selectedType == FistSelectWalk(r, 1)
                      newAnimal == [ id |-> animalIdCounter, type |-> selectedType,
                                     position |-> << spawnX, FistSpawnY, spawnZ >>,
                                     health |-> ANIMAL_TYPES[selectedType].health,
                                     isAlive |-> TRUE, isDying |-> FALSE,
                                     stuckSpears |-> << >>, credited |-> 0 ]
                  IN /\ animals' = Append(animals, newAnimal)
                     /\ frameOrder' = Append(frameOrder, << "animal", newAnimal.id >>)
                     /\ events' = << Event("spawn", newAnimal.id, NoId, r) >>
             /\ animalIdCounter' = animalIdCounter + 1
             /\ timers' = again
  /\ UNCHANGED << budget, isReady, spearState, headPosition, handPosition, thrownSpears, score,
                  hitMessage, flashMessage, isPaused, sinceLastFire, spearIdCounter, frameDelta,
                  respawnDebt, playerHealth, isGameOver, screenFlash >>

\* setIsDying(false) at the end of the death animation
FistTimerDeathAnimation ==
  /\ Due("deathAnimation")
  /\ LET tm == timers[DueIdx]
     IN animals' = IF ~tm.stale /\ HasId(animals, tm.a)
                   THEN [animals EXCEPT ![IdxOf(animals, tm.a)].isDying = FALSE]
                   ELSE animals
  /\ timers' = Remove(timers, DueIdx)
  /\ events' = << Event("dead", timers[DueIdx].a, NoId, 0) >>
  /\ UNCHANGED << fistVars, budget, isReady, spearState, headPosition, thrownSpears, score,
                  hitMessage, flashMessage, isPaused, sinceLastFire, spearIdCounter,
                  animalIdCounter, frameDelta, frameOrder, respawnDebt, used >>

\* setScreenFlash(false) 200 ms after an arrival
FistTimerClearScreenFlash ==
  /\ Due("clearScreenFlash")
  /\ screenFlash' = FALSE
  /\ timers' = Remove(timers, DueIdx)
  /\ events' = << >>
  /\ UNCHANGED << budget, isReady, spearState, headPosition, handPosition, thrownSpears, animals,
                  score, hitMessage, flashMessage, isPaused, sinceLastFire, spearIdCounter,
                  animalIdCounter, frameDelta, frameOrder, respawnDebt, used, playerHealth,
                  isGameOver >>

\* setSpearState(IDLE) 500 ms after a throw
FistTimerIdle ==
  /\ Due("toIdle")
  /\ spearState' = SPEAR_STATES.IDLE
  /\ timers' = Remove(timers, DueIdx)
  /\ events' = << >>
  /\ UNCHANGED << fistVars, budget, isReady, headPosition, thrownSpears, animals, score,
                  hitMessage, flashMessage, isPaused, sinceLastFire, spearIdCounter,
                  animalIdCounter, frameDelta, frameOrder, respawnDebt, used >>

\* the gesture effect of App, run with the hand landmarks of the current
\* render and the power level p
GestureEffect(handLandmarks, p) ==
  /\ isReady
  /\ LET isFist == detectFist(handLandmarks)
         isOpenPalm == detectOpenPalm(handLandmarks)
         position == HandPoint(handLandmarks.centre)
         grip == isFist /\ spearState = SPEAR_STATES.IDLE
         throw == ~grip /\ isOpenPalm /\ spearState = SPEAR_STATES.GRIPPED
         newSpear == [ id |-> spearIdCounter, position |-> handPosition,
                       velocity |-> FistVelocity(p), isActive |-> TRUE,
                       hasTriggeredMiss |-> FALSE, hasHitAnimal |-> FALSE, misses |-> 0 ]
     IN IF GestureGuard(isPaused, isGameOver)
        THEN /\ throw => used.spears < budget.spears
             /\ used' = IF throw THEN [used EXCEPT !.spears = @ + 1] ELSE used
             /\ handPosition' = IF grip \/ spearState = SPEAR_STATES.GRIPPED
                                THEN position ELSE handPosition
             /\ spearState' = IF grip THEN SPEAR_STATES.GRIPPED
                              ELSE IF throw THEN SPEAR_STATES.THROWING
                              ELSE spearState
             /\ thrownSpears' = IF throw THEN Append(thrownSpears, newSpear) ELSE thrownSpears
             /\ frameOrder' = IF throw THEN Append(frameOrder, << "spear", newSpear.id >>)
                              ELSE frameOrder
             /\ spearIdCounter' = IF throw THEN spearIdCounter + 1 ELSE spearIdCounter
             /\ timers' = IF throw THEN Append(timers, Timer("toIdle", IdleDelay, NoId, NoId, 0))
                          ELSE timers
             /\ events' = IF throw THEN << Event("fire", NoId, newSpear.id, p) >> ELSE << >>
        ELSE /\ events' = << Event("blocked", NoId, NoId,
                                   IF isOpenPalm /\ spearState = SPEAR_STATES.GRIPPED
                                   THEN 1 ELSE 0) >>
             /\ UNCHANGED << used, handPosition, spearState, thrownSpears, frameOrder,
                             spearIdCounter, timers >>
  /\ UNCHANGED << budget, isReady, headPosition, animals, score, hitMessage, flashMessage,
                  isPaused, sinceLastFire, animalIdCounter, frameDelta, respawnDebt,
                  playerHealth, isGameOver, screenFlash >>

FistTogglePause ==
  /\ IF PauseGuard(isGameOver)
     THEN /\ ~isPaused => used.pauses < budget.pauses
          /\ used' = IF ~isPaused THEN [used EXCEPT !.pauses = @ + 1] ELSE used
          /\ isPaused' = ~isPaused
          /\ timers' = SpawnEffect(timers, playerHealth, ~isPaused, isGameOver)
          /\ events' = << Event("toggle", NoId, NoId, 1) >>
     ELSE /\ events' = << Event("toggle", NoId, NoId, 0) >>
          /\ UNCHANGED << used, isPaused, timers >>
  /\ UNCHANGED << budget, isReady, spearState, headPosition, handPosition, thrownSpears, animals,
                  score, hitMessage, flashMessage, sinceLastFire, spearIdCounter,
                  animalIdCounter, frameDelta, frameOrder, respawnDebt, playerHealth,
                  isGameOver, screenFlash >>

FistRestart ==
  /\ used.restarts < budget.restarts
  /\ used' = [used EXCEPT !.restarts = @ + 1]
  /\ playerHealth' = FullHealth
  /\ score' = 0
  /\ animals' = << >>
  /\ thrownSpears' = << >>
  /\ isGameOver' = FALSE
  /\ isPaused' = FALSE
  /\ hitMessage' = ""
  /\ screenFlash' = FALSE
  /\ spearState' = SPEAR_STATES.IDLE
  /\ spearIdCounter' = 0
  /\ animalIdCounter' = 0
  /\ frameOrder' = << >>
  /\ LET old == [i \in DOMAIN timers |->
                   IF timers[i].kind = "spawnInterval" THEN timers[i]
                   ELSE [timers[i] EXCEPT !.stale = TRUE]]
     IN timers' = IF playerHealth # FullHealth \/ isPaused \/ isGameOver
                  THEN SpawnEffect(old, FullHealth, FALSE, FALSE)
                  ELSE old
  /\ events' = << Event("restart", NoId, playerHealth, score) >>
  /\ UNCHANGED << budget, isReady, headPosition, handPosition, flashMessage, sinceLastFire,
                  frameDelta, respawnDebt >>

FistNext ==
  \/ LoadedData
  \/ \E h \in Hands, p \in PowerLevels : GestureEffect(h, p)
  \/ Advance
  \/ FistFrame
  \/ FistTimerSpawn
  \/ FistTimerDeathAnimation
  \/ FistTimerClearScreenFlash
  \/ FistTimerIdle
  \/ TimerDelayedHit
  \/ TimerClearHitMessage
  \/ TimerMissRemove
  \/ FistTogglePause
  \/ FistRestart

FistSpec == FistInit /\ [][FistNext]_vars

\* ------------------------------------------------------------- properties
Events == Range(events)

\* C1 - hit idempotence: once spear P is recorded in animal A's stuck-spear
\* list, no later frame of A registers a hit for P or lowers A's health
\* because of P.
C1_NoRehit ==
  /\ \A e \in Range(events') :
       e.ev = "hit" =>
         \A i \in DOMAIN animals :
           animals[i].id = e.a => e.s \notin Range(animals[i].stuckSpears)
  /\ \A i \in DOMAIN animals, j \in DOMAIN animals' :
       (animals[i].id = animals'[j].id /\ animals'[j].health < animals[i].health) =>
         \E e \in Range(events') :
           e.ev = "hit" /\ e.a = animals[i].id /\ e.s \notin Range(animals[i].stuckSpears)

C1_HitIdempotence == [][C1_NoRehit]_vars

\* a frame in which an active spear already stuck in an animal was again
\* within the hit radius of that animal
C1_Witness == \E e \in Events : e.ev = "stuck"

\* C2 - a spear that registered a hit, in this tick or an earlier one, never
\* emits a miss, also when it reaches the ground, the backstop or the
\* out-of-bounds region in that same tick or afterwards.
C2_NoMissAfterHit ==
  /\ \A k \in DOMAIN thrownSpears :
       thrownSpears[k].hasHitAnimal => thrownSpears[k].misses = 0
  /\ \A e, f \in Events : ~(e.ev = "hit" /\ f.ev = "miss" /\ e.s = f.s)

C4_ScoreOncePerHit ==
  \A i \in DOMAIN animals :
    animals[i].credited <= ANIMAL_TYPES[animals[i].type].score * Len(animals[i].stuckSpears)

\* C5 - overkill prevention: when two active spears are within the hit radius
\* of the same animal at health 1 in one tick, only one registers the lethal
\* hit, and only one death-animation timer is scheduled for the animal.
C5_OneLethalHit ==
  /\ \A e, f \in Events : (e.ev = "kill" /\ f.ev = "kill" /\ e.a = f.a) => e.s = f.s
  /\ \A i, j \in DOMAIN timers :
       ( /\ timers[i].kind = "deathAnimation" /\ timers[j].kind = "deathAnimation"
         /\ ~timers[i].stale /\ ~timers[j].stale
         /\ timers[i].a = timers[j].a ) => i = j

\* the pending callbacks that end in a spawn answering a removal
RespawnTimers ==
  { i \in DOMAIN timers :
      timers[i].kind \in {"deathAnimation", "arrivalRespawn", "removedRespawn"} }

\* C6 - every kill and every arrival is followed by exactly one new animal:
\* the removals not yet answered by a spawn are matched one to one by the
\* pending respawn callbacks, never none and never two for one removal.
C6_OneRespawnPerRemoval == respawnDebt = Cardinality(RespawnTimers)

\* the pending callbacks that end in a spawn
SpawnTimers ==
  { i \in DOMAIN timers :
      timers[i].kind \in {"initialSpawn", "deathAnimation", "arrivalRespawn", "removedRespawn"} }

AnAnimalIsAlive == \E i \in DOMAIN animals : animals[i].isAlive

\* an unpaused session without an alive animal and without any callback
\* that would spawn one
Stranded == ~isPaused /\ ~AnAnimalIsAlive /\ SpawnTimers = {}

\* while the session stays unpaused a stranded session stays stranded
StrandedIsPermanent == [][(Stranded /\ ~isPaused') => Stranded']_vars

\* C7 - while the session is unpaused the live-animal count never stays at
\* zero forever, also right after a restart: an unpaused session without an
\* alive animal always has a spawn on its way.
C7_NeverStranded == ~Stranded

\* C8 - cooldown: a spear is created only FIRE_COOLDOWN (1000 ms) or more
\* after the previous creation, one at a time; a fire signal inside the
\* cooldown window creates no spear and queues nothing.
C8_Creation ==
  /\ (spearIdCounter' > spearIdCounter \/ Len(thrownSpears') > Len(thrownSpears)) =>
       /\ sinceLastFire >= FIRE_COOLDOWN
       /\ sinceLastFire' = 0
       /\ spearIdCounter' = spearIdCounter + 1
       /\ Len(thrownSpears') = Len(thrownSpears) + 1
  /\ (\E e \in Range(events') : e.ev = "cooling") =>
       /\ thrownSpears' = thrownSpears
       /\ spearIdCounter' = spearIdCounter
       /\ timers' = timers
       /\ sinceLastFire' = sinceLastFire

C8_Cooldown == [][C8_Creation]_vars

\* a fire signal was ignored inside the cooldown window of an earlier throw
C8_Witness ==
  /\ \E e \in Events : e.ev = "cooling"
  /\ used.spears >= 1 /\ sinceLastFire < FIRE_COOLDOWN

\* a second spear was thrown
C8_SecondThrow == used.spears = 2 /\ sinceLastFire = 0

IsFrameStep == frameDelta > 0 /\ frameDelta' = 0

ArrivalRespawnTimers(tms) == { i \in DOMAIN tms : tms[i].kind = "arrivalRespawn" }

\* C9 - arrival versus kill: an alive animal whose new z reaches the player
\* boundary (z >= 8) in a tick registers no hit, damage or score in that
\* tick, whether or not an active spear is within the hit radius; it is
\* removed once and one respawn is scheduled for it.
C9_Arrival ==
  (IsFrameStep /\ ~isPaused) =>
    /\ \A i \in DOMAIN animals :
         LET a == animals[i]
             newZ == a.position[3] + (currentSpeed(a) * frameDelta) \div 1000
         IN (a.isAlive /\ newZ >= PlayerZ) =>
              /\ \A e \in Range(events') :
                   e.a = a.id => e.ev \in {"arrival", "arrivalInRange"}
              /\ Cardinality({ n \in DOMAIN events' :
                                 events'[n].ev = "arrival" /\ events'[n].a = a.id }) = 1
              /\ ~HasId(animals', a.id)
              /\ (\A e \in Range(events') : e.ev # "score") => score' = score
    /\ Cardinality(ArrivalRespawnTimers(timers')) =
         Cardinality(ArrivalRespawnTimers(timers))
           + Cardinality({ n \in DOMAIN events' : events'[n].ev = "arrival" })

C9_ArrivalPrecedence == [][C9_Arrival]_vars

\* an animal arrived in a tick in which an active spear was within the hit radius
C9_Witness == \E e \in Events : e.ev = "arrivalInRange"

\* C10 - animal health never increases over the animal's lifetime and always
\* satisfies 0 <= health <= maxHealth, also after several hits in one tick.
C10_HealthInRange ==
  \A i \in DOMAIN animals :
    /\ 0 <= animals[i].health
    /\ animals[i].health <= ANIMAL_TYPES[animals[i].type].health

C10_HealthNotRaised ==
  \A i \in DOMAIN animals, j \in DOMAIN animals' :
    animals[i].id = animals'[j].id => animals'[j].health <= animals[i].health

C10_Health == []C10_HealthInRange /\ [][C10_HealthNotRaised]_vars

\* an animal was hit by two spears in one tick
C10_Witness ==
  \E e, f \in Events : e.ev = "hit" /\ f.ev = "hit" /\ e.a = f.a /\ e.s # f.s

\* between two states, an animal that was not alive keeps its health and its
\* stuck-spear list
C11_DeadStaysUntouched ==
  [][\A i \in DOMAIN animals, j \in DOMAIN animals' :
       (animals[i].id = animals'[j].id /\ ~animals[i].isAlive) =>
         /\ animals'[j].health = animals[i].health
         /\ animals'[j].stuckSpears = animals[i].stuckSpears]_vars

\* C11 - once an animal is Dying or Removed its health never changes again
\* and no further spear is recorded as hitting it: no hit on an animal
\* follows its lethal hit, and an animal that is not alive has at most as
\* many stuck spears as its archetype has health.
C11_NoHitOnDying ==
  /\ \A n, m \in DOMAIN events :
       (events[n].ev = "kill" /\ events[m].ev = "hit" /\ events[n].a = events[m].a)
         => m < n
  /\ \A i \in DOMAIN animals :
       ~animals[i].isAlive =>
         Len(animals[i].stuckSpears) <= ANIMAL_TYPES[animals[i].type].health

\* C12 - a spear's active flag goes from true to false at most once and
\* never back: a spear that has hit an animal is inactive in every later
\* state and its position is no longer advanced.
C12_HitSpearStops ==
  \A k \in DOMAIN thrownSpears, j \in DOMAIN thrownSpears' :
    thrownSpears[k].id = thrownSpears'[j].id =>
      /\ ~thrownSpears[k].isActive => ~thrownSpears'[j].isActive
      /\ thrownSpears[k].hasHitAnimal =>
           /\ ~thrownSpears'[j].isActive
           /\ thrownSpears'[j].position = thrownSpears[k].position

C12_InactiveOnce == [][C12_HitSpearStops]_vars

\* the ThrownSpear component's own isActive never returns to true
C12_StateFlagLatches ==
  [][\A k \in DOMAIN thrownSpears, j \in DOMAIN thrownSpears' :
       (thrownSpears[k].id = thrownSpears'[j].id /\ ~thrownSpears[k].isActive)
         => ~thrownSpears'[j].isActive]_vars

\* C13 - each spear registers a hit on at most one animal over its lifetime:
\* no spear id is recorded in the stuck-spear lists of two animals.
C13_OneAnimalPerSpear ==
  \A i, j \in DOMAIN animals :
    i # j => Range(animals[i].stuckSpears) \cap Range(animals[j].stuckSpears) = {}

\* the pending callbacks that remove spear id from the registry
RemovalTimers(id) ==
  { i \in DOMAIN timers :
      /\ ~timers[i].stale /\ timers[i].s = id
      /\ \/ timers[i].kind = "missRemove"
         \/ timers[i].kind = "delayedHit" /\ Truthy(id) }

\* a spear that hit or missed, left in the registry with no removal pending
Leaked(k) ==
  /\ thrownSpears[k].hasHitAnimal \/ thrownSpears[k].hasTriggeredMiss
  /\ RemovalTimers(thrownSpears[k].id) = {}

\* short of a restart, a leaked spear stays in the registry
LeakedIsPermanent ==
  [][\A k \in DOMAIN thrownSpears :
       (Leaked(k) /\ ~(\E e \in Range(events') : e.ev = "restart")) =>
         \E j \in DOMAIN thrownSpears' :
           thrownSpears'[j].id = thrownSpears[k].id /\ Leaked(j)']_vars

\* C14 - every spear that became inactive by a hit or by a miss is removed
\* from the registry after its delay (500 ms after a hit, 1000 ms after a
\* miss), whatever its id: such a spear always has its removal pending.
C14_RemovalPending == \A k \in DOMAIN thrownSpears : ~Leaked(k)

\* C15 - when a killed animal's death-animation timer fires, the animal is
\* deleted from the registry and a replacement is requested, whatever its
\* id: no animal stays in the registry dead with its animation complete.
C15_DeadAnimalRemoved ==
  \A i \in DOMAIN animals : animals[i].isAlive \/ animals[i].isDying

IsRestartStep == \E e \in Range(events') : e.ev = "restart"

\* C16 - while paused no animal position, spear position or spear velocity
\* changes, so that the first update after the resume integrates from
\* exactly the values held when the session was paused.
C16_Frozen ==
  isPaused =>
    /\ \A i \in DOMAIN animals, j \in DOMAIN animals' :
         animals[i].id = animals'[j].id => animals'[j].position = animals[i].position
    /\ \A k \in DOMAIN thrownSpears, j \in DOMAIN thrownSpears' :
         thrownSpears[k].id = thrownSpears'[j].id =>
           /\ thrownSpears'[j].position = thrownSpears[k].position
           /\ thrownSpears'[j].velocity = thrownSpears[k].velocity

C16_PauseFreezes == [][C16_Frozen]_vars

\* a frame was rendered while paused with a spear in flight and an animal alive
C16_Witness ==
  /\ isPaused
  /\ \E e \in Events : e.ev = "frozen" /\ e.s # NoId
  /\ \E e \in Events : e.ev = "frozen" /\ e.a # NoId

\* C17 - while the session is paused no spear and no animal is added to the
\* registries, whatever gesture arrives and whatever spawn timer fires.
C17_NoneAdded ==
  (isPaused /\ isPaused') =>
    /\ \A j \in DOMAIN animals' : HasId(animals, animals'[j].id)
    /\ \A j \in DOMAIN thrownSpears' : HasId(thrownSpears, thrownSpears'[j].id)
    /\ animalIdCounter' = animalIdCounter
    /\ spearIdCounter' = spearIdCounter

C17_NoSpawnWhilePaused == [][C17_NoneAdded]_vars

\* no spear is created while paused
C17_NoThrowWhilePaused ==
  [][(isPaused /\ isPaused') => spearIdCounter' = spearIdCounter]_vars

\* the callbacks other than the initial spawn, which the pause effect owns
DeferredTimers(tms) == SelectSeq(tms, LAMBDA t : t.kind # "initialSpawn")

\* pausing and resuming leave every other pending callback in place, and a
\* resume schedules the initial spawn again
PauseKeepsCallbacks ==
  [][(isPaused' # isPaused /\ ~IsRestartStep) =>
       /\ DeferredTimers(timers') = DeferredTimers(timers)
       /\ ~isPaused' => \E i \in DOMAIN timers' : timers'[i].kind = "initialSpawn"]_vars

\* the step runs the due callback, of the given kind and of this session
FiredDue(kind) ==
  /\ ~NoDue /\ timers[DueIdx].kind = kind /\ ~timers[DueIdx].stale
  /\ ~IsRestartStep
  /\ timers' # timers /\ Len(timers') <= Len(timers)
  /\ SubSeq(timers', 1, Len(timers) - 1) = Remove(timers, DueIdx)

\* C18 - pausing does not lose deferred effects: a pause or resume leaves the
\* pending callbacks in place, and when they fire, paused or not, the hit
\* callback credits the score and removes its spear and the death-animation
\* callback removes its animal and requests the replacement.
C18_Effects ==
  /\ (isPaused' # isPaused /\ ~IsRestartStep) =>
       DeferredTimers(timers') = DeferredTimers(timers)
  /\ FiredDue("delayedHit") =>
       /\ score' = score + timers[DueIdx].v
       /\ ~HasId(thrownSpears', timers[DueIdx].s)
  /\ FiredDue("deathAnimation") =>
       /\ ~HasId(animals', timers[DueIdx].a)
       /\ \/ animalIdCounter' = animalIdCounter + 1
          \/ \E i \in DOMAIN timers' : timers'[i].kind = "removedRespawn"

C18_PauseKeepsEffects == [][C18_Effects]_vars

\* C19 - immediately after a restart, whatever the state before: score 0,
\* both registries empty, fire state Idle, not paused, both id counters 0.
C19_Reset ==
  IsRestartStep =>
    /\ score' = 0
    /\ animals' = << >>
    /\ thrownSpears' = << >>
    /\ spearState' = SPEAR_STATES.IDLE
    /\ isPaused' = FALSE
    /\ spearIdCounter' = 0
    /\ animalIdCounter' = 0

C19_RestartResets == [][C19_Reset]_vars

\* a restart from a session with a score, both registries in use
C19_Witness ==
  /\ \E e \in Events : e.ev = "restart" /\ e.v > 0
  /\ used.spears >= 1 /\ used.animals >= 1

\* C20 - a restart resets the fire cooldown to its initial value: after the
\* restart the time since the last shot is what it is in a new session.
C20_CooldownReset == [][IsRestartStep => sinceLastFire' = FIRE_COOLDOWN]_vars

\* the points of the score events of a step
RECURSIVE SumScores(_)
SumScores(evs) ==
  IF evs = << >> THEN 0
  ELSE (IF Head(evs).ev = "score" THEN Head(evs).v ELSE 0) + SumScores(Tail(evs))

\* C21 - between restarts the score never decreases and changes only in a
\* step that emits a hit's score event, by the points of that event: a miss,
\* an arrival, a spawn, a pause or resume and a message timer leave it alone.
C21_ScoreStep ==
  ~IsRestartStep =>
    /\ score' >= score
    /\ score' = score + SumScores(events')

C21_ScoreMonotone == [][C21_ScoreStep]_vars

\* a miss or an arrival in a session that has scored, in a step without a hit
C21_Witness ==
  /\ score > 0
  /\ \E e \in Events : e.ev \in {"miss", "arrival"}
  /\ \A e \in Events : e.ev \notin {"score", "hit"}

FireStates == { SPEAR_STATES.IDLE, SPEAR_STATES.GRIPPED, SPEAR_STATES.THROWING }

FireTransitions ==
  { << SPEAR_STATES.IDLE, SPEAR_STATES.GRIPPED >>,
    << SPEAR_STATES.GRIPPED, SPEAR_STATES.THROWING >>,
    << SPEAR_STATES.THROWING, SPEAR_STATES.GRIPPED >>,
    << SPEAR_STATES.GRIPPED, SPEAR_STATES.IDLE >> }

\* C22 - the fire state only takes the values Idle, Gripped and Throwing and
\* changes only along Idle->Gripped, Gripped->Throwing, Throwing->Gripped
\* and Gripped->Idle; a restart may in addition force Idle from any state.
C22_FireStep ==
  /\ spearState \in FireStates
  /\ spearState' \in FireStates
  /\ spearState' # spearState =>
       \/ << spearState, spearState' >> \in FireTransitions
       \/ IsRestartStep /\ spearState' = SPEAR_STATES.IDLE

C22_FireStateMachine == [][C22_FireStep]_vars

\* Idle again after a grip, a throw and the regrip that followed it, in a
\* session that was never restarted: all four transitions were taken
C22_Witness ==
  /\ spearState = SPEAR_STATES.IDLE
  /\ used.spears >= 1 /\ used.restarts = 0
  /\ ~RegripPending

\* C23 - a spear is created only in a step that starts in Gripped with the
\* hand raised and the cooldown elapsed; that step appends exactly one spear,
\* placed at the aim point held in headPosition, sets the fire state to
\* Throwing and restarts the cooldown clock.
C23_Throw ==
  (Len(thrownSpears') > Len(thrownSpears) \/ spearIdCounter' > spearIdCounter) =>
    /\ spearState = SPEAR_STATES.GRIPPED
    /\ \E e \in Range(events') : e.ev = "fire" /\ e.v = 1 /\ e.s = spearIdCounter
    /\ sinceLastFire >= FIRE_COOLDOWN
    /\ headPosition # NoPosition
    /\ thrownSpears' =
         Append(thrownSpears,
                [ id |-> spearIdCounter, position |-> headPosition,
                  velocity |-> ThrowVelocity, isActive |-> TRUE,
                  hasTriggeredMiss |-> FALSE, hasHitAnimal |-> FALSE, misses |-> 0 ])
    /\ spearIdCounter' = spearIdCounter + 1
    /\ spearState' = SPEAR_STATES.THROWING
    /\ sinceLastFire' = 0

C23_ThrowOnlyWhenReady == [][C23_Throw]_vars

\* a spear just thrown from the aim point, the fire state Throwing
C23_Witness ==
  /\ \E e \in Events : e.ev = "fire" /\ e.v = 1
  /\ spearState = SPEAR_STATES.THROWING /\ sinceLastFire = 0
  /\ thrownSpears # << >>
  /\ thrownSpears[Len(thrownSpears)].position = headPosition

RegripTimers == { i \in DOMAIN timers : timers[i].kind = "regrip" }

\* C24 - Throwing is never permanent: whenever the fire state is Throwing a
\* regrip callback is pending that is due at most 500 ms later and needs no
\* input, and the step in which that callback fires leaves the fire state
\* Gripped.
C24_RegripScheduled ==
  spearState = SPEAR_STATES.THROWING =>
    \E i \in RegripTimers : timers[i].rem <= RegripDelay /\ timers[i].rem <= RegripDelay - sinceLastFire

C24_RegripFires ==
  (Due("regrip") /\ ~IsRestartStep /\ Len(timers') < Len(timers)
     /\ timers' = Remove(timers, DueIdx)) =>
    spearState' = SPEAR_STATES.GRIPPED

C24_ThrowingEnds == []C24_RegripScheduled /\ [][C24_RegripFires]_vars

\* the regrip callback has just fired, half a second after the throw
C24_Witness ==
  /\ spearState = SPEAR_STATES.GRIPPED
  /\ used.spears >= 1 /\ used.restarts = 0
  /\ ~RegripPending
  /\ sinceLastFire >= RegripDelay /\ sinceLastFire < FIRE_COOLDOWN

\* a run of the pose effect without a usable pose: no landmarks at all, or
\* fewer than 33 of them
LostInputStep == \E e \in Range(events') : e.ev \in {"nopose", "nohead"}

\* C25 - when the landmark input is missing or invalid while the fire state
\* is Gripped, the fire state becomes Idle; such input never creates a spear
\* and always leaves a defined fire state.
C25_LostInput ==
  LostInputStep =>
    /\ spearState = SPEAR_STATES.GRIPPED => spearState' = SPEAR_STATES.IDLE
    /\ thrownSpears' = thrownSpears
    /\ spearState' \in FireStates

C25_LostInputUngrips == [][C25_LostInput]_vars

\* the part of C25 that holds: lost input creates no spear, and landmarks
\* that are present but incomplete take Gripped to Idle
C25_IncompleteUngrips ==
  [][ /\ LostInputStep => thrownSpears' = thrownSpears /\ spearState' \in FireStates
      /\ ((\E e \in Range(events') : e.ev = "nohead") /\ spearState = SPEAR_STATES.GRIPPED)
           => spearState' = SPEAR_STATES.IDLE ]_vars

\* the spear of a frame step whose useFrame callback ran, with its state
\* before (s) and after (n) the step, satisfies P
SpearStepped(P(_, _)) ==
  IsFrameStep =>
    \A k \in DOMAIN thrownSpears :
      LET s == thrownSpears[k]
      IN (~SpearSkipsFrame(s, isPaused) /\ HasId(thrownSpears', s.id)) =>
           P(s, thrownSpears'[IdxOf(thrownSpears', s.id)])

\* C26 - the contact tests have the priority backstop, ground, out of
\* bounds: a new position that meets the backstop test and the ground test
\* is put on the backstop plane and its y is left alone; one that meets the
\* ground test and the out-of-bounds test, and not the backstop test, is put
\* on the floor.
C26_Priority ==
  SpearStepped(LAMBDA s, n :
    LET m == SpearMoved(s, frameDelta)
    IN /\ AtBackstop(m) => n.position = << m[1], m[2], BackstopZ >> /\ ~n.isActive
       /\ (~AtBackstop(m) /\ AtGround(m)) =>
            n.position = << m[1], FloorY, m[3] >> /\ ~n.isActive
       /\ (~AtBackstop(m) /\ ~AtGround(m)) => n.position = m)

C26_ContactPriority == [][C26_Priority]_vars

\* a spear stopped on the backstop plane below the floor level
C26_Witness ==
  \E k \in DOMAIN thrownSpears :
    /\ thrownSpears[k].position[3] = BackstopZ
    /\ thrownSpears[k].position[2] < FloorY
    /\ ~thrownSpears[k].isActive

\* a spear stopped on the floor beyond the depth limit
C26_WitnessFloor ==
  \E k \in DOMAIN thrownSpears :
    /\ thrownSpears[k].position[2] = FloorY
    /\ OutOfBounds(thrownSpears[k].position)
    /\ ~thrownSpears[k].isActive

\* C27 - a spear whose new position is out of bounds becomes inactive in
\* that tick, keeps the position it reached (no clamping) and is not moved
\* by later ticks.
C27_Out ==
  SpearStepped(LAMBDA s, n :
    LET m == SpearMoved(s, frameDelta)
    IN SpearContact(m) = "out" => n.position = m /\ ~n.isActive)

C27_OutOfBoundsInactive == [][C27_Out]_vars

\* the part of C27 that holds: no clamping, and a spear that is out of
\* bounds is not moved again
C27_OutStays ==
  [][ /\ SpearStepped(LAMBDA s, n :
           SpearContact(SpearMoved(s, frameDelta)) = "out" =>
             n.position = SpearMoved(s, frameDelta))
      /\ \A k \in DOMAIN thrownSpears :
           LET s == thrownSpears[k]
           IN (OutOfBounds(s.position) /\ HasId(thrownSpears', s.id)) =>
                /\ thrownSpears'[IdxOf(thrownSpears', s.id)].position = s.position
                /\ thrownSpears'[IdxOf(thrownSpears', s.id)].velocity = s.velocity ]_vars

\* C28 - the score and spear-removal side effect of a hit is never applied
\* in the tick that detects the collision, for lethal and non-lethal hits
\* alike: a frame leaves the score alone and removes no spear.
C28_FrameDefers ==
  IsFrameStep =>
    /\ score' = score
    /\ \A k \in DOMAIN thrownSpears : HasId(thrownSpears', thrownSpears[k].id)

C28_HitEffectDeferred == [][C28_FrameDefers]_vars

\* the part of C28 that holds: a frame whose hits are all non-lethal defers
\* the side effect to the 500 ms callback
C28_NonLethalDeferred ==
  [][ (IsFrameStep /\ \A e \in Range(events') : e.ev # "kill") =>
        /\ C28_FrameDefers
        /\ \A e \in Range(events') :
             e.ev = "hit" =>
               \E i \in DOMAIN timers' :
                 /\ timers'[i].kind = "delayedHit" /\ timers'[i].rem = HitDelay
                 /\ timers'[i].s = e.s /\ timers'[i].a = e.a ]_vars

\* a non-lethal hit was registered
C28_NonLethalHit ==
  /\ \E e \in Events : e.ev = "hit"
  /\ \A e \in Events : e.ev # "kill"

\* C29 - health is a hit count: every registered hit lowers the animal's
\* health by exactly 1, so an animal of maximum health n that has m spears
\* recorded as hitting it has health n - m, and is dying exactly when n
\* hits were registered, also when several hits fall in one tick.
C29_HealthCountsHits ==
  \A i \in DOMAIN animals :
    LET a == animals[i]
        hits == Len(a.stuckSpears)
    IN /\ a.health = ANIMAL_TYPES[a.type].health - hits
       /\ ~a.isAlive => hits = ANIMAL_TYPES[a.type].health

\* the part of C29 that holds: a frame that registers one hit on an animal
\* lowers its health by exactly 1
C29_OneHitOnePoint ==
  [][ IsFrameStep =>
        \A i \in DOMAIN animals :
          LET a == animals[i]
              hits == { n \in DOMAIN events' : events'[n].ev = "hit" /\ events'[n].a = a.id }
          IN (Cardinality(hits) = 1 /\ HasId(animals', a.id)) =>
               animals'[IdxOf(animals', a.id)].health = a.health - 1 ]_vars

\* C30 - when an alive animal's new z reaches the player boundary, exactly
\* one arrival event is emitted that carries the archetype's damage and the
\* animal's id; the animal is deleted from the registry by that step and
\* never goes through Dying: no death animation is started for it.
C30_Arrival ==
  (IsFrameStep /\ ~isPaused) =>
    \A i \in DOMAIN animals :
      LET a == animals[i]
          newZ == a.position[3] + (currentSpeed(a) * frameDelta) \div 1000
          arrivals == { n \in DOMAIN events' :
                          events'[n].ev = "arrival" /\ events'[n].a = a.id }
      IN IF a.isAlive /\ newZ >= PlayerZ
         THEN /\ Cardinality(arrivals) = 1
              /\ \A n \in arrivals : events'[n].v = ANIMAL_TYPES[a.type].damage
              /\ ~a.isDying
              /\ ~HasId(animals', a.id)
              /\ \A n \in DOMAIN timers' :
                   (timers'[n].kind = "deathAnimation" /\ timers'[n].a = a.id) =>
                     (n \in DOMAIN timers /\ timers[n] = timers'[n])
         ELSE arrivals = {}

C30_ArrivalRemoves == [][C30_Arrival]_vars

\* an animal has just arrived: its event carries a damage value and the
\* animal is gone from the registry
C30_Witness ==
  \E e \in Events :
    /\ e.ev = "arrival"
    /\ e.v \in { ANIMAL_TYPES[t].damage : t \in DOMAIN ANIMAL_TYPES }
    /\ ~HasId(animals, e.a)

SpawnStep == \E e \in Range(events') : e.ev = "spawn"

\* C31 - an animal is added to the registry only as the effect of the
\* session start or of a removal: the initial-spawn callback adds an animal
\* only as the first animal of a session, so a pause followed by a resume
\* adds none.
C31_SpawnCause ==
  (SpawnStep /\ Due("initialSpawn")) => (animalIdCounter = 0 /\ animals = << >>)

C31_SpawnOnlyOnStartOrRemoval == [][C31_SpawnCause]_vars

\* the cumulative spawn weight of the first k archetypes
RECURSIVE CumWeight(_)
CumWeight(k) ==
  IF k = 0 THEN 0 ELSE CumWeight(k - 1) + ANIMAL_TYPES[animalTypes[k]].spawnWeight

\* the first archetype in declaration order whose cumulative weight is >= r
FirstCovering(r) ==
  animalTypes[CHOOSE k \in DOMAIN animalTypes :
                /\ CumWeight(k) >= r
                /\ \A j \in 1 .. (k - 1) : CumWeight(j) < r]

\* C33 - weighted selection: for every draw r with 0 < r <= totalWeight the
\* spawned animal has the first archetype in declaration order (elephant,
\* cheetah, antelope) whose cumulative weight is >= r, and every spawned
\* animal has one of the three archetypes.
C33_Selection ==
  \A n \in DOMAIN events' :
    events'[n].ev = "spawn" =>
      LET r == events'[n].v
          new == animals'[IdxOf(animals', events'[n].a)]
      IN /\ new.type \in Range(animalTypes)
         /\ (0 < r /\ r <= totalWeight) => new.type = FirstCovering(r)

C33_WeightedSelection == [][C33_Selection]_vars

\* a spawn whose draw is exactly the cumulative weight of the first archetype
C33_Witness ==
  \E e \in Events :
    /\ e.ev = "spawn" /\ e.v = CumWeight(1)
    /\ HasId(animals, e.a) /\ animals[IdxOf(animals, e.a)].type = animalTypes[1]

\* a due clear callback of the given kind empties the message msg (msgAfter
\* in the next state) while a younger callback of that kind, started with a
\* later message, has not reached its deadline
ClearsEarly(kind, msg, msgAfter) ==
  /\ Due(kind) /\ ~IsRestartStep
  /\ msg # "" /\ msgAfter = ""
  /\ \E i \in DOMAIN timers : i # DueIdx /\ timers[i].kind = kind /\ timers[i].rem > 0

\* C34 - a transient message stays displayed until its own duration has
\* elapsed (1.5 s for hit and miss text, 2 s for arrival text) unless a newer
\* message replaces it: the clear callback of an earlier message never
\* clears a later message early.
C34_NoEarlyClear ==
  /\ ~ClearsEarly("clearHitMessage", hitMessage, hitMessage')
  /\ ~ClearsEarly("clearFlashMessage", flashMessage, flashMessage')

C34_MessageDuration == [][C34_NoEarlyClear]_vars

\* ------------------------------------------------------------------ C35
\* the speed curve written out from the archetype table: base speed plus
\* the speed increase for every health point lost
CurveSpeed(a) ==
  CASE a.type = "elephant" -> 400 + (3 - a.health) * 600
    [] a.type = "cheetah"  -> 1000 + (2 - a.health) * 500
    [] a.type = "antelope" -> 600

CurveBase(a) ==
  CASE a.type = "elephant" -> 400
    [] a.type = "cheetah"  -> 1000
    [] a.type = "antelope" -> 600

C35_Step ==
  ~IsRestartStep =>
    \A i \in DOMAIN animals : \A j \in DOMAIN animals' :
      LET a == animals[i]
          b == animals'[j]
      IN (a.id = b.id /\ a.isAlive) =>
           \* the speed is at least the base speed and never decreases
           /\ CurveSpeed(a) >= CurveBase(a)
           /\ CurveSpeed(b) >= CurveSpeed(a)
           /\ a.type = "antelope" => CurveSpeed(b) = CurveBase(a)
           \* z never moves away from the player
           /\ b.position[3] >= a.position[3]
           \* an unpaused frame moves it by speed * delta towards the player
           /\ (IsFrameStep /\ ~isPaused) =>
                /\ b.position[3] = a.position[3] + (CurveSpeed(a) * frameDelta) \div 1000
                /\ b.position[3] > a.position[3]
           /\ (IsFrameStep /\ isPaused) => b.position[3] = a.position[3]

\* C35 - an alive animal moves each tick by baseSpeed + (maxHealth - health)
\* * speedIncrease times the frame time: the speed is at least baseSpeed,
\* never decreases during the animal's lifetime and is constant for an
\* antelope, and z only increases while the animal is alive and unpaused.
C35_SpeedCurve == [][C35_Step]_vars

\* an alive, wounded animal that has covered a distance no sequence of
\* frames at its base speed adds up to
C35_Witness ==
  \E i \in DOMAIN animals :
    LET a == animals[i]
    IN /\ a.isAlive
       /\ a.health < ANIMAL_TYPES[a.type].health
       /\ (a.position[3] - spawnZ) % (CurveBase(a) \div 10) # 0

\* ------------------------------------------------------------------ C36
UniqueIds(seq) ==
  \A i \in DOMAIN seq : \A j \in DOMAIN seq : i # j => seq[i].id # seq[j].id

\* C36 - identities are unique: no two animals in the animal registry share
\* an id and no two spears in the spear registry share an id, after any
\* sequence of spawns, throws, removals and restarts.
C36_UniqueIds == UniqueIds(animals) /\ UniqueIds(thrownSpears)

\* two animals registered in a session that began with a restart
C36_Witness == used.restarts >= 1 /\ Len(animals) >= 2

\* two spears registered at once
C36_WitnessSpears == Len(thrownSpears) >= 2

\* ------------------------------------------------------------------ C37
\* the callback that is due was scheduled before the last restart
StaleDue(kind) == Due(kind) /\ timers[DueIdx].stale

C37_StaleHit == StaleDue("delayedHit") => score' = score

\* C37 - after a restart the score stays 0 until a collision is detected
\* after that restart: the 500 ms delayed hit callback scheduled before the
\* restart never credits score to the new session.
C37_NoStaleCredit == [][C37_StaleHit]_vars

\* ------------------------------------------------------------------ C38
\* every animal and spear registered before the step is registered after it
KeepsEntities ==
  /\ \A i \in DOMAIN animals : HasId(animals', animals[i].id)
  /\ \A k \in DOMAIN thrownSpears : HasId(thrownSpears', thrownSpears[k].id)

\* a restart empties both registries, so whatever is registered when a
\* callback of the old session fires was created after the restart
C38_StaleStep ==
  (StaleDue("delayedHit") \/ StaleDue("missRemove") \/ StaleDue("deathAnimation"))
    => KeepsEntities

\* C38 - a deferred callback scheduled before a restart (delayed hit
\* removal, delayed miss removal, death-animation removal) never removes an
\* animal or spear created after that restart, although the id counters
\* restart from 0 and ids are reused.
C38_StaleRemovesNothing == [][C38_StaleStep]_vars

\* ------------------------------------------------------------------ C32
\* C32 - fist variant: an animal that reached the player boundary, or whose
\* death animation has completed, is removed from the animal registry, so
\* every registered animal is alive or dying.
C32_RegistryLive ==
  \A i \in DOMAIN animals : animals[i].isAlive \/ animals[i].isDying

\* ------------------------------------------------------------------ C39
\* the archetype's damage, written out from the table
TableDamage(type) ==
  CASE type = "elephant" -> 50
    [] type = "cheetah"  -> 25
    [] type = "antelope" -> 10

\* the animals whose frame callback reports an arrival in the pending frame
Arriving ==
  { i \in DOMAIN animals :
      /\ animals[i].isAlive
      /\ ~isPaused
      /\ animals[i].position[3] + (CurveSpeed(animals[i]) * frameDelta) \div 1000 >= 8000 }

RECURSIVE SumDamage(_)
SumDamage(S) ==
  IF S = {} THEN 0
  ELSE LET i == CHOOSE j \in S : TRUE
       IN TableDamage(animals[i].type) + SumDamage(S \ {i})

IsFistFrameStep == frameDelta > 0 /\ frameDelta' = 0

C39_Step ==
  /\ IsFistFrameStep =>
       /\ playerHealth' = Max(0, playerHealth - SumDamage(Arriving))
       /\ isGameOver' = (isGameOver \/ (Arriving # {} /\ playerHealth' = 0))
  /\ (~IsFistFrameStep /\ ~IsRestartStep) =>
       /\ playerHealth' = playerHealth
       /\ isGameOver' = isGameOver
  /\ IsRestartStep => (playerHealth' = 100 /\ ~isGameOver')
  /\ playerHealth' > playerHealth => (IsRestartStep /\ playerHealth' = 100)

\* C39 - fist variant: 0 <= playerHealth <= 100 always; each arrival lowers
\* it by the archetype's damage, clamped at 0; game over is set exactly when
\* an arrival brings it to 0; it returns to 100 only by restart.
C39_PlayerHealth ==
  /\ [](playerHealth >= 0 /\ playerHealth <= 100)
  /\ [](isGameOver <=> playerHealth = 0)
  /\ [][C39_Step]_vars

\* the game has just ended with an arrival whose damage exceeded the health
\* that was left
C39_Witness ==
  /\ isGameOver /\ playerHealth = 0
  /\ \E n \in DOMAIN events :
       /\ events[n].ev = "health"
       /\ events[n].s > 0 /\ events[n].s < 25
       /\ events[n].v = 0

\* the health is back at 100 after a restart that followed a game over
C39_WitnessRestart ==
  /\ playerHealth = 100
  /\ \E e \in Range(events) : e.ev = "restart" /\ e.s = 0

\* ------------------------------------------------------------------ C40
Ids(seq) == { seq[i].id : i \in DOMAIN seq }

C40_Step ==
  (isGameOver /\ ~IsRestartStep) =>
    /\ Ids(thrownSpears') \subseteq Ids(thrownSpears)
    /\ Ids(animals') \subseteq Ids(animals)
    /\ spearIdCounter' = spearIdCounter
    /\ animalIdCounter' = animalIdCounter
    /\ isPaused' = isPaused
    /\ isGameOver'

\* C40 - fist variant: once game over is set, no new spear is created and no
\* new animal is spawned until restart, and the pause toggle has no effect
\* while game over holds.
C40_GameOverFreezes == [][C40_Step]_vars

\* game over, and an open palm has just been shown with the spear gripped
C40_Witness ==
  /\ isGameOver
  /\ \E e \in Range(events) : e.ev = "blocked" /\ e.v = 1

\* game over, and the pause control has just been used
C40_WitnessPause ==
  /\ isGameOver
  /\ \E e \in Range(events) : e.ev = "toggle" /\ e.v = 0

====
